---- MODULE Spec2Model ----
(***************************************************************************)
(* Model of the auto-scaling engine (nasa-fire-port/src/core/              *)
(* auto_scaler.py): the AutoScaler object, its four public methods and the *)
(* wall clock they read; and of the singly linked list (learning-projects/ *)
(* python/data-structures/linked-list/linked_list.py).                     *)
(*                                                                         *)
(* Python floats are modelled as exact rationals [num, den] in lowest      *)
(* terms: confidences, thresholds and scale factors.  Metric values are    *)
(* integers, so a mean is the rational sum/len.  Time is in whole seconds. *)
(***************************************************************************)
EXTENDS Integers, Sequences, FiniteSets, TLC

VARIABLES
    config,             \* self.config: the ScalingConfig given to __init__
    current_instances,  \* self.current_instances
    metrics_history,    \* self.metrics_history: sequence of SystemMetrics
    last_scaling_time,  \* self.last_scaling_time
    now,                \* the value time.time() returns
    call,               \* the step that led here: a method call with its
                        \* arguments, or a tick of the clock
    ret,                \* what that call returned
    last_success,       \* time of the latest execute_scaling that returned True
    head,               \* LinkedList: the data of the nodes reachable from
                        \* self.head, in order (<<>> when head is None)
    size                \* LinkedList: self.size

\* the fields of the LinkedList
list_vars == <<head, size>>

\* the fields of the AutoScaler and the clock
scaler_vars == <<config, current_instances, metrics_history,
                 last_scaling_time, now, last_success>>

vars == <<config, current_instances, metrics_history, last_scaling_time,
          now, call, ret, last_success, head, size>>

(***************************************************************************)
(* Bounds of the model.                                                    *)
(***************************************************************************)
MaxHistory == 5      \* add_metrics is not called when it would leave more
MaxTicks == 2        \* the clock advances this many times
StartTime == 1000    \* time.time() when the scaler is constructed
\* sleeps of the monitoring loop
DriverCycles == 6
\* the list is not grown beyond this many nodes
MaxLen == 4
\* the data stored are 1..MaxValue
MaxValue == 3

(***************************************************************************)
(* Rational arithmetic.                                                    *)
(***************************************************************************)
RECURSIVE GCD(_, _)
GCD(a, b) == IF b = 0 THEN a ELSE GCD(b, a % b)

Abs(x) == IF x < 0 THEN -x ELSE x

\* n/d in lowest terms, d > 0
Frac(n, d) ==
    LET g == GCD(Abs(n), d)
    IN  [num |-> n \div g, den |-> d \div g]

FLess(a, b) == a.num * b.den < b.num * a.den
FLeq(a, b) == a.num * b.den <= b.num * a.den
FMin(a, b) == IF FLess(b, a) THEN b ELSE a
FAdd(a, b) == Frac(a.num * b.den + b.num * a.den, a.den * b.den)
FSub(a, b) == Frac(a.num * b.den - b.num * a.den, a.den * b.den)
FMul(a, b) == Frac(a.num * b.num, a.den * b.den)
FInt(n) == Frac(n, 1)
Zero == FInt(0)
One == FInt(1)

\* Python int(x) of a rational: truncation toward zero
IntOf(a) ==
    IF a.num >= 0 THEN a.num \div a.den ELSE -((-a.num) \div a.den)

Min(a, b) == IF b < a THEN b ELSE a
Max(a, b) == IF b > a THEN b ELSE a

(***************************************************************************)
(* ScalingAction, SystemMetrics, ScalingConfig.                            *)
(***************************************************************************)
SCALE_UP == "scale_up"
SCALE_DOWN == "scale_down"
NO_ACTION == "no_action"
ScalingAction == {SCALE_UP, SCALE_DOWN, NO_ACTION}

\* The fields of SystemMetrics the scaler's decisions read.
SystemMetrics(cpu, mem, rt, ts) ==
    [cpu_usage |-> cpu, memory_usage |-> mem, response_time |-> rt,
     timestamp |-> ts]

ScalingConfig(mn, mx, up, down, cool, win, upf, downf) ==
    [min_instances |-> mn, max_instances |-> mx,
     scale_up_threshold |-> up, scale_down_threshold |-> down,
     cooldown_period |-> cool, metrics_window |-> win,
     scale_up_factor |-> upf, scale_down_factor |-> downf]

\* ScalingConfig(): every field at its default
DefaultConfig ==
    ScalingConfig(2, 10, FInt(70), FInt(30), 300, 60, Frac(3, 2), Frac(7, 10))

\* the config main() builds
DemoConfig ==
    ScalingConfig(2, 8, FInt(70), FInt(30), 60, 30, Frac(3, 2), Frac(7, 10))

(***************************************************************************)
(* Constants written into the methods.                                     *)
(***************************************************************************)
MinSamples == 5                     \* should_scale: len(history) < 5
MinConfidence == Frac(7, 10)        \* execute_scaling: confidence < 0.7
ResponseUpLimit == FInt(1000)       \* _should_scale_up: response_time > 1000
ResponseDownLimit == FInt(200)      \* _should_scale_down: response_time < 200

(***************************************************************************)
(* Inputs.  Each specification draws its configs, samples and clock steps  *)
(* from its own small sets.                                                *)
(***************************************************************************)
\* thresholds the wrong way round: scale_up_threshold < scale_down_threshold
InvertedConfig ==
    ScalingConfig(2, 4, FInt(10), FInt(30), 60, 30, Frac(3, 2), Frac(7, 10))

\* a factor the wrong way round: scale_up_factor < 1
ShrinkConfig ==
    ScalingConfig(2, 4, FInt(70), FInt(30), 60, 30, Frac(1, 2), Frac(7, 10))

SmallConfig ==
    ScalingConfig(2, 4, FInt(70), FInt(30), 60, 30, Frac(3, 2), Frac(7, 10))

Configs == {SmallConfig, InvertedConfig, ShrinkConfig}

\* (cpu_usage, memory_usage, response_time) of the samples fed to add_metrics
Hot == <<80, 50, 500>>
Cold == <<20, 20, 100>>
Peak == <<100, 100, 2500>>
Loads == {Hot, Cold}
DefaultLoads == {Cold, Peak}

\* confidences handed to execute_scaling
Confidences == {Frac(69, 100), Frac(7, 10)}
DefaultConfidences == {Frac(69, 100), Frac(7, 10), One}

\* how old a caller's sample may be: fresh or already past the window ...
StaleAges == {0, config.metrics_window + 1}
\* ... or exactly at the cutoff
EdgeAges == {0, config.metrics_window, config.metrics_window + 1}

(***************************************************************************)
(* AutoScaler.__init__                                                     *)
(***************************************************************************)
InitWith(cfgs) ==
    /\ config \in cfgs
    /\ current_instances = config.min_instances
    /\ metrics_history = <<>>
    /\ last_scaling_time = 0
    /\ now = StartTime
    /\ call = [op |-> "__init__"]
    /\ ret = "None"
    /\ last_success = -1
    /\ head = <<>>
    /\ size = 0

Init == InitWith(Configs)

(***************************************************************************)
(* AutoScaler.add_metrics                                                  *)
(***************************************************************************)
cutoff_time == now - config.metrics_window

KeepSample(m, cutoff) == m.timestamp >= cutoff

Pruned(history, cutoff) ==
    SelectSeq(history, LAMBDA m : KeepSample(m, cutoff))

\* the window applied before the new sample is appended
AppendAfterPrune(history, metrics, cutoff) ==
    Append(Pruned(history, cutoff), metrics)

\* append, then keep only the samples within the window
HistoryAfterAdd(history, metrics, cutoff) ==
    Pruned(Append(history, metrics), cutoff)

add_metrics(metrics) ==
    /\ Len(HistoryAfterAdd(metrics_history, metrics, cutoff_time)) <= MaxHistory
    /\ metrics_history' = HistoryAfterAdd(metrics_history, metrics, cutoff_time)
    /\ call' = [op |-> "add_metrics"]
    /\ ret' = "None"
    /\ UNCHANGED <<config, current_instances, last_scaling_time, now, last_success>>
    /\ UNCHANGED list_vars

(***************************************************************************)
(* AutoScaler._calculate_average_metrics and the decision helpers          *)
(***************************************************************************)
RECURSIVE SumOf(_, _)
SumOf(history, field) ==
    IF history = <<>> THEN 0
    ELSE Head(history)[field] + SumOf(Tail(history), field)

\* statistics.mean
Mean(history, field) == Frac(SumOf(history, field), Len(history))

calculate_average_metrics ==
    IF metrics_history = <<>>
    THEN [cpu_usage |-> Zero, memory_usage |-> Zero, response_time |-> Zero]
    ELSE [cpu_usage |-> Mean(metrics_history, "cpu_usage"),
          memory_usage |-> Mean(metrics_history, "memory_usage"),
          response_time |-> Mean(metrics_history, "response_time")]

\* the response-time comparison turned round
ScaleUpWhenResponsive(metrics) ==
    /\ \/ FLess(config.scale_up_threshold, metrics.cpu_usage)
       \/ FLess(config.scale_up_threshold, metrics.memory_usage)
       \/ FLess(metrics.response_time, ResponseUpLimit)
    /\ current_instances < config.max_instances

should_scale_up(metrics) ==
    /\ \/ FLess(config.scale_up_threshold, metrics.cpu_usage)
       \/ FLess(config.scale_up_threshold, metrics.memory_usage)
       \/ FLess(ResponseUpLimit, metrics.response_time)
    /\ current_instances < config.max_instances

\* cpu and memory compared with scale_up_threshold
ScaleDownBelowUpThreshold(metrics) ==
    /\ FLess(metrics.cpu_usage, config.scale_up_threshold)
    /\ FLess(metrics.memory_usage, config.scale_up_threshold)
    /\ FLess(metrics.response_time, ResponseDownLimit)
    /\ current_instances > config.min_instances

should_scale_down(metrics) ==
    /\ FLess(metrics.cpu_usage, config.scale_down_threshold)
    /\ FLess(metrics.memory_usage, config.scale_down_threshold)
    /\ FLess(metrics.response_time, ResponseDownLimit)
    /\ current_instances > config.min_instances

\* the weights of memory and response time exchanged
WeightedSwapped(cpu_factor, memory_factor, response_factor) ==
    FAdd(FAdd(FMul(cpu_factor, Frac(4, 10)), FMul(memory_factor, Frac(2, 10))),
         FMul(response_factor, Frac(4, 10)))

Weighted(cpu_factor, memory_factor, response_factor) ==
    FAdd(FAdd(FMul(cpu_factor, Frac(4, 10)), FMul(memory_factor, Frac(4, 10))),
         FMul(response_factor, Frac(2, 10)))

\* the caps at 1.0 forgotten
ScaleUpConfidenceUncapped(metrics) ==
    FAdd(FAdd(FMul(FMul(metrics.cpu_usage, Frac(1, 100)), Frac(4, 10)),
              FMul(FMul(metrics.memory_usage, Frac(1, 100)), Frac(4, 10))),
         FMul(FMul(metrics.response_time, Frac(1, 2000)), Frac(2, 10)))

calculate_scale_up_confidence(metrics) ==
    LET cpu_factor == FMin(FMul(metrics.cpu_usage, Frac(1, 100)), One)
        memory_factor == FMin(FMul(metrics.memory_usage, Frac(1, 100)), One)
        response_factor == FMin(FMul(metrics.response_time, Frac(1, 2000)), One)
    IN  FMin(Weighted(cpu_factor, memory_factor, response_factor), One)

\* response time scaled by 2000 as in the scale-up confidence
ScaleDownConfidenceBy2000(metrics) ==
    FMin(FAdd(FAdd(FMul(FSub(One, FMul(metrics.cpu_usage, Frac(1, 100))),
                        Frac(4, 10)),
                   FMul(FSub(One, FMul(metrics.memory_usage, Frac(1, 100))),
                        Frac(4, 10))),
              FMul(FSub(One, FMul(metrics.response_time, Frac(1, 2000))),
                   Frac(2, 10))),
         One)

calculate_scale_down_confidence(metrics) ==
    LET cpu_factor == FSub(One, FMul(metrics.cpu_usage, Frac(1, 100)))
        memory_factor == FSub(One, FMul(metrics.memory_usage, Frac(1, 100)))
        response_factor == FSub(One, FMul(metrics.response_time, Frac(1, 1000)))
    IN  FMin(Weighted(cpu_factor, memory_factor, response_factor), One)

(***************************************************************************)
(* AutoScaler.should_scale                                                 *)
(***************************************************************************)
Decision(action, confidence) == [action |-> action, confidence |-> confidence]

\* one sample too few accepted
TooFewSamplesOffByOne == Len(metrics_history) < MinSamples - 1

TooFewSamples == Len(metrics_history) < MinSamples

\* half of the cooldown is enough
InCooldownHalved == 2 * (now - last_scaling_time) < config.cooldown_period

InCooldown == now - last_scaling_time < config.cooldown_period

\* scale-down checked before scale-up
EvaluateDownFirst(metrics) ==
    IF should_scale_down(metrics)
    THEN Decision(SCALE_DOWN, calculate_scale_down_confidence(metrics))
    ELSE IF should_scale_up(metrics)
    THEN Decision(SCALE_UP, calculate_scale_up_confidence(metrics))
    ELSE Decision(NO_ACTION, Zero)

Evaluate(metrics) ==
    IF should_scale_up(metrics)
    THEN Decision(SCALE_UP, calculate_scale_up_confidence(metrics))
    ELSE IF should_scale_down(metrics)
    THEN Decision(SCALE_DOWN, calculate_scale_down_confidence(metrics))
    ELSE Decision(NO_ACTION, Zero)

should_scale_value ==
    IF TooFewSamples THEN Decision(NO_ACTION, Zero)
    ELSE IF InCooldown THEN Decision(NO_ACTION, Zero)
    ELSE Evaluate(calculate_average_metrics)

should_scale ==
    /\ call' = [op |-> "should_scale"]
    /\ ret' = should_scale_value
    /\ UNCHANGED <<config, current_instances, metrics_history,
                   last_scaling_time, now, last_success>>
    /\ UNCHANGED list_vars

(***************************************************************************)
(* AutoScaler.execute_scaling, _scale_up, _scale_down                      *)
(***************************************************************************)
\* the threshold itself refused too
LowConfidenceInclusive(confidence) == FLeq(confidence, MinConfidence)

LowConfidence(confidence) == FLess(confidence, MinConfidence)

\* the product taken as the new count, max_instances forgotten
ScaleUpUnclamped(instances) ==
    IntOf(FMul(FInt(instances), config.scale_up_factor))

ScaleUpTarget(instances) ==
    Min(IntOf(FMul(FInt(instances), config.scale_up_factor)),
        config.max_instances)

\* the product taken as the new count, min_instances forgotten
ScaleDownUnclamped(instances) ==
    IntOf(FMul(FInt(instances), config.scale_down_factor))

ScaleDownTarget(instances) ==
    Max(IntOf(FMul(FInt(instances), config.scale_down_factor)),
        config.min_instances)

\* the elif written as else: whatever is not SCALE_UP scales down
ScaledInstancesElseDown(action, instances) ==
    IF action = SCALE_UP THEN ScaleUpTarget(instances)
    ELSE ScaleDownTarget(instances)

ScaledInstances(action, instances) ==
    IF action = SCALE_UP THEN ScaleUpTarget(instances)
    ELSE IF action = SCALE_DOWN THEN ScaleDownTarget(instances)
    ELSE instances

\* last_scaling_time left as it was
ScalingTimeKept(time) == last_scaling_time

ScalingTimeAfter(time) == time

execute_scaling(action, confidence) ==
    /\ call' = [op |-> "execute_scaling", action |-> action,
                confidence |-> confidence]
    /\ IF LowConfidence(confidence)
       THEN /\ ret' = FALSE
            /\ UNCHANGED <<current_instances, last_scaling_time, last_success>>
       ELSE /\ current_instances' = ScaledInstances(action, current_instances)
            /\ last_scaling_time' = ScalingTimeAfter(now)
            /\ last_success' = now
            /\ ret' = TRUE
    /\ UNCHANGED <<config, metrics_history, now>>
    /\ UNCHANGED list_vars

\* Where the guarded block (the try of execute_scaling) may raise:
\*   "new_instances"  while new_instances is computed, before _scale_up or
\*                    _scale_down is entered;
\*   "scale_log"      in _scale_up or _scale_down, at the logger call that
\*                    follows the assignment of current_instances;
\*   "final_log"      at the logger call that follows the assignment of
\*                    last_scaling_time.
Faults == {"new_instances", "scale_log", "final_log"}

\* execute_scaling when the guarded block raises at fault: the except clause
\* logs and returns False; what was assigned before the fault stays assigned
execute_scaling_fault(action, confidence, fault) ==
    /\ ~LowConfidence(confidence)
    /\ fault \in {"new_instances", "scale_log"} =>
           action \in {SCALE_UP, SCALE_DOWN}
    /\ call' = [op |-> "execute_scaling", action |-> action,
                confidence |-> confidence, fault |-> fault]
    /\ current_instances' =
           IF fault = "new_instances" THEN current_instances
           ELSE ScaledInstances(action, current_instances)
    /\ last_scaling_time' =
           IF fault = "final_log" THEN ScalingTimeAfter(now)
           ELSE last_scaling_time
    /\ ret' = FALSE
    /\ UNCHANGED <<config, metrics_history, now, last_success>>
    /\ UNCHANGED list_vars

(***************************************************************************)
(* AutoScaler.get_status                                                   *)
(***************************************************************************)
\* current_instances reported from the config
StatusOfConfig ==
    [current_instances |-> config.min_instances,
     min_instances |-> config.min_instances,
     max_instances |-> config.max_instances,
     metrics_count |-> Len(metrics_history),
     last_scaling_time |-> last_scaling_time,
     time_since_last_scaling |-> now - last_scaling_time]

Status ==
    [current_instances |-> current_instances,
     min_instances |-> config.min_instances,
     max_instances |-> config.max_instances,
     metrics_count |-> Len(metrics_history),
     last_scaling_time |-> last_scaling_time,
     time_since_last_scaling |-> now - last_scaling_time]

get_status ==
    /\ call' = [op |-> "get_status"]
    /\ ret' = Status
    /\ UNCHANGED scaler_vars
    /\ UNCHANGED list_vars

(***************************************************************************)
(* The wall clock between calls.                                           *)
(***************************************************************************)
Tick(delay) ==
    /\ now + delay <= StartTime + MaxTicks * delay
    /\ now' = now + delay
    /\ call' = [op |-> "tick"]
    /\ ret' = "None"
    /\ UNCHANGED <<config, current_instances, metrics_history,
                   last_scaling_time, last_success>>
    /\ UNCHANGED list_vars

Sample(load, age) == SystemMetrics(load[1], load[2], load[3], now - age)

\* any of the small configs, two loads, the clock in steps of 30 s
Next ==
    \/ \E load \in Loads, age \in StaleAges : add_metrics(Sample(load, age))
    \/ should_scale
    \/ \E action \in ScalingAction, confidence \in Confidences :
          execute_scaling(action, confidence)
    \/ Tick(30)

Spec == Init /\ [][Next]_vars

\* a scaler allowed to run on a single instance
SingleConfig ==
    ScalingConfig(1, 4, FInt(70), FInt(30), 60, 30, Frac(3, 2), Frac(7, 10))

InitSingle == InitWith({SingleConfig})

SpecSingle == InitSingle /\ [][Next]_vars

\* the config of main(), samples up to exactly metrics_window old
InitWindow == InitWith({DemoConfig})

NextWindow ==
    \/ \E age \in EdgeAges : add_metrics(Sample(Hot, age))
    \/ should_scale
    \/ \E action \in ScalingAction, confidence \in Confidences :
          execute_scaling(action, confidence)
    \/ Tick(30)

SpecWindow == InitWindow /\ [][NextWindow]_vars

\* the default config, the clock in steps of its cooldown_period
InitDefault == InitWith({DefaultConfig})

NextDefault ==
    \/ \E load \in DefaultLoads, age \in StaleAges :
          add_metrics(Sample(load, age))
    \/ should_scale
    \/ \E action \in ScalingAction, confidence \in DefaultConfidences :
          execute_scaling(action, confidence)
    \/ Tick(300)

SpecDefault == InitDefault /\ [][NextDefault]_vars

\* a small config, execute_scaling with and without faults in its guarded
\* block
InitFault == InitWith({SmallConfig})

NextFault ==
    \/ add_metrics(Sample(Hot, 0))
    \/ should_scale
    \/ \E action \in ScalingAction, confidence \in Confidences :
          execute_scaling(action, confidence)
    \/ \E action \in ScalingAction, confidence \in Confidences,
          fault \in Faults :
          execute_scaling_fault(action, confidence, fault)
    \/ Tick(30)

SpecFault == InitFault /\ [][NextFault]_vars

(***************************************************************************)
(* The monitoring loop of main(): each cycle collects a sample stamped     *)
(* now and adds it, asks for a decision, applies it when it is not         *)
(* NO_ACTION, reads the status and sleeps.  The position in the cycle is   *)
(* the last call made.                                                     *)
(***************************************************************************)
DriverCollect ==
    /\ call.op \in {"__init__", "tick"}
    /\ \E load \in DefaultLoads : add_metrics(Sample(load, 0))

DriverDecide ==
    /\ call.op = "add_metrics"
    /\ should_scale

DriverApply ==
    /\ call.op = "should_scale"
    /\ ret.action # NO_ACTION
    /\ execute_scaling(ret.action, ret.confidence)

DriverStatus ==
    /\ \/ call.op = "execute_scaling"
       \/ call.op = "should_scale" /\ ret.action = NO_ACTION
    /\ get_status

\* time.sleep between cycles: a quarter of the window, so that the five
\* newest samples are the ones the window keeps
SleepTime == config.metrics_window \div 4

DriverSleep ==
    /\ call.op = "get_status"
    /\ now + SleepTime <= StartTime + DriverCycles * SleepTime
    /\ now' = now + SleepTime
    /\ call' = [op |-> "tick"]
    /\ ret' = "None"
    /\ UNCHANGED <<config, current_instances, metrics_history,
                   last_scaling_time, last_success>>
    /\ UNCHANGED list_vars

\* the demo's limits and cooldown, with a window of four sleeps
DriverConfig ==
    ScalingConfig(2, 8, FInt(70), FInt(30), 60, 120, Frac(3, 2), Frac(7, 10))

InitDriver == InitWith({DriverConfig})

NextDriver ==
    \/ DriverCollect
    \/ DriverDecide
    \/ DriverApply
    \/ DriverStatus
    \/ DriverSleep

SpecDriver == InitDriver /\ [][NextDriver]_vars

(***************************************************************************)
(* LinkedList.  head is the sequence of the data of the nodes reachable    *)
(* from self.head (<<>> when head is None); size is the counter the class  *)
(* keeps beside it.                                                        *)
(***************************************************************************)
is_empty == head = <<>>

get_size == size

to_list == head

\* how a call ends: with an IndexError, or with a value ("None" for none)
IndexError == [raised |-> TRUE]

Returned(value) == [raised |-> FALSE, value |-> value]

\* what a list method leaves behind besides the list itself
Returns(c, r) ==
    /\ call' = c
    /\ ret' = r
    /\ UNCHANGED scaler_vars

insert_at_beginning(data) ==
    /\ Len(head) < MaxLen
    /\ head' = <<data>> \o head
    /\ size' = size + 1
    /\ Returns([op |-> "insert_at_beginning", data |-> data], Returned("None"))

insert_at_end(data) ==
    /\ Len(head) < MaxLen
    /\ head' = IF is_empty THEN <<data>> ELSE Append(head, data)
    /\ size' = size + 1
    /\ Returns([op |-> "insert_at_end", data |-> data], Returned("None"))

\* position > size read as position >= size
InsertOutOfRangeStrict(position) == position < 0 \/ position >= size

InsertOutOfRange(position) == position < 0 \/ position > size

\* the new node linked in after walking `steps` nodes from the front
RECURSIVE InsertAfter(_, _, _)
InsertAfter(nodes, data, steps) ==
    IF steps = 0
    THEN <<data>> \o nodes
    ELSE <<Head(nodes)>> \o InsertAfter(Tail(nodes), data, steps - 1)

insert_at_position(data, position) ==
    /\ InsertOutOfRange(position) \/ Len(head) < MaxLen
    /\ IF InsertOutOfRange(position)
       THEN /\ UNCHANGED list_vars
            /\ Returns([op |-> "insert_at_position", data |-> data,
                        position |-> position], IndexError)
       ELSE /\ head' = InsertAfter(head, data, position)
            /\ size' = size + 1
            /\ Returns([op |-> "insert_at_position", data |-> data,
                        position |-> position], Returned("None"))

\* the node unlinked after walking `steps` nodes from the front
RECURSIVE RemoveAfter(_, _)
RemoveAfter(nodes, steps) ==
    IF steps = 0
    THEN Tail(nodes)
    ELSE <<Head(nodes)>> \o RemoveAfter(Tail(nodes), steps - 1)

\* the data found after walking `steps` nodes from the front
RECURSIVE DataAfter(_, _)
DataAfter(nodes, steps) ==
    IF steps = 0 THEN Head(nodes) ELSE DataAfter(Tail(nodes), steps - 1)

\* the first node holding data unlinked, when there is one
RECURSIVE RemoveFirst(_, _)
RemoveFirst(nodes, data) ==
    IF nodes = <<>> THEN [nodes |-> <<>>, found |-> FALSE]
    ELSE IF Head(nodes) = data THEN [nodes |-> Tail(nodes), found |-> TRUE]
    ELSE LET rest == RemoveFirst(Tail(nodes), data)
         IN  [nodes |-> <<Head(nodes)>> \o rest.nodes, found |-> rest.found]

delete_by_value(data) ==
    LET searched == RemoveFirst(head, data) IN
    /\ head' = searched.nodes
    /\ size' = IF searched.found THEN size - 1 ELSE size
    /\ Returns([op |-> "delete_by_value", data |-> data],
               Returned(searched.found))

OutOfRange(position) == position < 0 \/ position >= size

delete_by_position(position) ==
    IF OutOfRange(position)
    THEN /\ UNCHANGED list_vars
         /\ Returns([op |-> "delete_by_position", position |-> position],
                    IndexError)
    ELSE /\ head' = RemoveAfter(head, position)
         /\ size' = size - 1
         /\ Returns([op |-> "delete_by_position", position |-> position],
                    Returned(DataAfter(head, position)))

get_element_at_position(position) ==
    /\ UNCHANGED list_vars
    /\ Returns([op |-> "get_element_at_position", position |-> position],
               IF OutOfRange(position) THEN IndexError
               ELSE Returned(DataAfter(head, position)))

\* the loop of reverse: each node in turn is put in front of `previous`
RECURSIVE ReverseLoop(_, _)
\* each node put behind `previous` instead
RECURSIVE ReverseLoopBehind(_, _)
ReverseLoopBehind(previous, current) ==
    IF current = <<>> THEN previous
    ELSE ReverseLoopBehind(Append(previous, Head(current)), Tail(current))

ReverseLoop(previous, current) ==
    IF current = <<>> THEN previous
    ELSE ReverseLoop(<<Head(current)>> \o previous, Tail(current))

\* the list reverse leaves behind
Reversed(nodes) ==
    IF nodes = <<>> \/ Len(nodes) = 1 THEN nodes ELSE ReverseLoop(<<>>, nodes)

reverse ==
    /\ head' = Reversed(head)
    /\ UNCHANGED size
    /\ Returns([op |-> "reverse"], Returned("None"))

\* one pass of the inner loop of sort from node i on: neighbours out of
\* order exchange their data
RECURSIVE BubblePass(_, _, _)
BubblePass(nodes, i, swapped) ==
    IF i >= Len(nodes) THEN [nodes |-> nodes, swapped |-> swapped]
    ELSE IF nodes[i] > nodes[i + 1]
         THEN BubblePass([nodes EXCEPT ![i] = nodes[i + 1],
                                       ![i + 1] = nodes[i]], i + 1, TRUE)
         ELSE BubblePass(nodes, i + 1, swapped)

\* a single pass
OnePass(nodes) == BubblePass(nodes, 1, FALSE).nodes

\* the outer loop of sort: passes until one swaps nothing
RECURSIVE WhileSwapped(_)
WhileSwapped(nodes) ==
    LET pass == BubblePass(nodes, 1, FALSE)
    IN  IF pass.swapped THEN WhileSwapped(pass.nodes) ELSE pass.nodes

sort ==
    /\ head' = IF is_empty \/ Len(head) = 1 THEN head ELSE WhileSwapped(head)
    /\ UNCHANGED size
    /\ Returns([op |-> "sort"], Returned("None"))

\* the loop of remove_duplicates with current at node i: a node equal to
\* its successor has the successor unlinked, otherwise current moves on
RECURSIVE UnlinkRepeats(_, _, _)
\* the unlinked nodes are not counted
RECURSIVE UnlinkRepeatsUncounted(_, _, _)
UnlinkRepeatsUncounted(nodes, i, count) ==
    IF i >= Len(nodes) THEN [nodes |-> nodes, size |-> count]
    ELSE IF nodes[i] = nodes[i + 1]
         THEN UnlinkRepeatsUncounted(
                  SubSeq(nodes, 1, i) \o SubSeq(nodes, i + 2, Len(nodes)),
                  i, count)
         ELSE UnlinkRepeatsUncounted(nodes, i + 1, count)

UnlinkRepeats(nodes, i, count) ==
    IF i >= Len(nodes) THEN [nodes |-> nodes, size |-> count]
    ELSE IF nodes[i] = nodes[i + 1]
         THEN UnlinkRepeats(
                  SubSeq(nodes, 1, i) \o SubSeq(nodes, i + 2, Len(nodes)),
                  i, count - 1)
         ELSE UnlinkRepeats(nodes, i + 1, count)

remove_duplicates ==
    /\ IF is_empty \/ Len(head) = 1
       THEN UNCHANGED list_vars
       ELSE /\ head' = UnlinkRepeats(head, 1, size).nodes
            /\ size' = UnlinkRepeats(head, 1, size).size
    /\ Returns([op |-> "remove_duplicates"], Returned("None"))

\* the data and positions the list methods are called with
Values == 1..MaxValue

Positions == (0 - 1)..(MaxLen + 1)

InitList == InitWith({DefaultConfig})

NextList ==
    \/ \E data \in Values : insert_at_beginning(data)
    \/ \E data \in Values : insert_at_end(data)
    \/ \E data \in Values, position \in Positions :
           insert_at_position(data, position)
    \/ \E data \in Values : delete_by_value(data)
    \/ \E position \in Positions : delete_by_position(position)
    \/ \E position \in Positions : get_element_at_position(position)
    \/ reverse
    \/ sort
    \/ remove_duplicates

SpecList == InitList /\ [][NextList]_vars

(***************************************************************************)
(* Properties.                                                             *)
(***************************************************************************)
NoDecision == Decision(NO_ACTION, Zero)

\* 1 <= min_instances <= max_instances, scale_up_factor >= 1 and
\* 0 < scale_down_factor <= 1
ValidConfig ==
    /\ 1 <= config.min_instances
    /\ config.min_instances <= config.max_instances
    /\ FLeq(One, config.scale_up_factor)
    /\ FLess(Zero, config.scale_down_factor)
    /\ FLeq(config.scale_down_factor, One)

\* the step taken is a call of execute_scaling
ExecuteStep == call'.op = "execute_scaling"

\* C1: under a config with 1 <= min_instances <= max_instances,
\* scale_up_factor >= 1 and 0 < scale_down_factor <= 1, current_instances
\* stays within [min_instances, max_instances] in every reachable state.
C1_InstancesWithinBounds ==
    ValidConfig =>
        /\ config.min_instances <= current_instances
        /\ current_instances <= config.max_instances

\* a scale-up that ended at max_instances, after the count had left
\* min_instances
C1_Witness ==
    /\ ValidConfig
    /\ call.op = "execute_scaling"
    /\ call.action = SCALE_UP
    /\ ret = TRUE
    /\ current_instances = config.max_instances
    /\ config.min_instances < config.max_instances

\* C2: after an execute_scaling that reported success at time t, a
\* should_scale call at a time less than cooldown_period after t returns
\* (NoAction, 0.0).
C2_CooldownGivesNoAction ==
    (/\ call.op = "should_scale"
     /\ last_success >= 0
     /\ now - last_success < config.cooldown_period)
        => ret = NoDecision

\* should_scale asked within the cooldown, with enough samples whose means
\* satisfy the scale-up condition
C2_Witness ==
    /\ call.op = "should_scale"
    /\ last_success >= 0
    /\ now - last_success < config.cooldown_period
    /\ now > last_success
    /\ Len(metrics_history) >= 5
    /\ should_scale_up(calculate_average_metrics)
    /\ ret = NoDecision

\* C3: with fewer than 5 samples in history should_scale returns
\* (NoAction, 0.0).
C3_FewSamplesGiveNoAction ==
    (call.op = "should_scale" /\ Len(metrics_history) < 5)
        => ret = NoDecision

\* should_scale asked with 4 samples, outside the cooldown, the means
\* satisfying the scale-up condition
C3_Witness ==
    /\ call.op = "should_scale"
    /\ Len(metrics_history) = 4
    /\ ~InCooldown
    /\ should_scale_up(calculate_average_metrics)
    /\ ret = NoDecision

\* C4: execute_scaling with confidence below 0.7 returns failure and leaves
\* current_instances, last_scaling_time and metrics_history unchanged; with
\* confidence 0.7 or above it returns success, and for ScaleUp and ScaleDown
\* current_instances becomes min(floor(current * scale_up_factor), max) and
\* max(floor(current * scale_down_factor), min).
C4_ConfidenceGate ==
    [][ExecuteStep =>
        IF call'.confidence.num * 10 < 7 * call'.confidence.den
        THEN /\ ret' = FALSE
             /\ UNCHANGED <<current_instances, last_scaling_time,
                            metrics_history>>
        ELSE /\ ret' = TRUE
             /\ call'.action = SCALE_UP =>
                  current_instances' =
                      Min((current_instances * config.scale_up_factor.num)
                              \div config.scale_up_factor.den,
                          config.max_instances)
             /\ call'.action = SCALE_DOWN =>
                  current_instances' =
                      Max((current_instances * config.scale_down_factor.num)
                              \div config.scale_down_factor.den,
                          config.min_instances)
    ]_vars

\* a scale-up at confidence 0.69 refused although there was room to grow
C4_Witness ==
    /\ call.op = "execute_scaling"
    /\ call.action = SCALE_UP
    /\ call.confidence = Frac(69, 100)
    /\ ret = FALSE
    /\ current_instances < config.max_instances
    /\ current_instances > config.min_instances

Clamp(x, lo, hi) == IF x < lo THEN lo ELSE IF x > hi THEN hi ELSE x

Floor(n, d) == n \div d

\* floor(current_instances * factor) clamped to [min_instances, max_instances]
ClampedProduct(factor) ==
    Clamp(Floor(current_instances * factor.num, factor.den),
          config.min_instances, config.max_instances)

WithinBounds ==
    /\ config.min_instances <= current_instances
    /\ current_instances <= config.max_instances

\* a successful execute_scaling of ScaleUp or ScaleDown, begun with
\* current_instances in [min_instances, max_instances], ends with the
\* clamped product of the count and the factor
ScalingIsClampedProduct ==
    (ExecuteStep /\ ret' = TRUE /\ WithinBounds) =>
        /\ call'.action = SCALE_UP =>
             current_instances' = ClampedProduct(config.scale_up_factor)
        /\ call'.action = SCALE_DOWN =>
             current_instances' = ClampedProduct(config.scale_down_factor)

\* C5 as stated: for every config, a successful ScaleUp (ScaleDown) sets
\* current_instances to floor(current_instances * scale_up_factor
\* (scale_down_factor)) clamped to [min_instances, max_instances], for every
\* current_instances in [min_instances, max_instances].
C5_AsStated == [][ScalingIsClampedProduct]_vars

\* C5: the same, for the configs with scale_up_factor >= 1 and
\* 0 < scale_down_factor <= 1.
C5_ClampedProduct ==
    [][(/\ FLeq(One, config.scale_up_factor)
        /\ FLess(Zero, config.scale_down_factor)
        /\ FLeq(config.scale_down_factor, One))
           => ScalingIsClampedProduct]_vars

\* a scale-down whose floored product fell below min_instances and was
\* clamped, under factors of the admitted kind
C5_Witness ==
    /\ FLeq(One, config.scale_up_factor)
    /\ FLeq(config.scale_down_factor, One)
    /\ call.op = "execute_scaling"
    /\ call.action = SCALE_DOWN
    /\ ret = TRUE
    /\ current_instances = config.min_instances
    /\ last_success = now

RECURSIVE IsSubseq(_, _)
\* a can be got from b by deleting elements
IsSubseq(a, b) ==
    IF a = <<>> THEN TRUE
    ELSE IF b = <<>> THEN FALSE
    ELSE IF Head(a) = Head(b) THEN IsSubseq(Tail(a), Tail(b))
    ELSE IsSubseq(a, Tail(b))

\* the samples of new are samples of old in the order they had there,
\* followed at most by one further sample
KeepsOrder(old, new) ==
    \/ IsSubseq(new, old)
    \/ new # <<>> /\ IsSubseq(SubSeq(new, 1, Len(new) - 1), old)

\* the step taken is a call of add_metrics
AddStep == call'.op = "add_metrics"

\* C6: right after an add_metrics call at time now every sample in
\* metrics_history, the new one included, has timestamp >= now -
\* metrics_window, and the samples kept are in the order they were added.
C6_WindowAfterAdd ==
    [][AddStep =>
        /\ \A i \in 1..Len(metrics_history') :
              metrics_history'[i].timestamp >= now' - config.metrics_window
        /\ KeepsOrder(metrics_history, metrics_history')
    ]_vars

\* after an add_metrics the history runs from a sample exactly at the
\* cutoff to a fresh one, an older sample having been dropped on the way
C6_Witness ==
    /\ call.op = "add_metrics"
    /\ Len(metrics_history) >= 3
    /\ metrics_history[1].timestamp = now - config.metrics_window
    /\ metrics_history[Len(metrics_history)].timestamp = now
    /\ now > StartTime

DefaultThresholds ==
    /\ config.scale_up_threshold = FInt(70)
    /\ config.scale_down_threshold = FInt(30)

\* the means of cpu_usage, memory_usage and response_time over the history
MeansAre(cpu, mem, rt) ==
    /\ metrics_history # <<>>
    /\ SumOf(metrics_history, "cpu_usage") = cpu * Len(metrics_history)
    /\ SumOf(metrics_history, "memory_usage") = mem * Len(metrics_history)
    /\ SumOf(metrics_history, "response_time") = rt * Len(metrics_history)

\* should_scale was just called with enough samples and the cooldown over
Evaluated ==
    /\ call.op = "should_scale"
    /\ Len(metrics_history) >= 5
    /\ now - last_scaling_time >= config.cooldown_period

\* C7 as stated: thresholds 70 and 30, at least 5 samples, the cooldown
\* over, means cpu = 80, memory = 50, response_time = 500: should_scale
\* returns ScaleUp with confidence 0.57, whatever current_instances is.
C7_AsStated ==
    (Evaluated /\ DefaultThresholds /\ MeansAre(80, 50, 500))
        => ret = Decision(SCALE_UP, Frac(57, 100))

\* C7: the same, when current_instances < max_instances.
C7_ScaleUpExample ==
    (/\ Evaluated /\ DefaultThresholds /\ MeansAre(80, 50, 500)
     /\ current_instances < config.max_instances)
        => ret = Decision(SCALE_UP, Frac(57, 100))

\* five samples of 80/50/500 evaluated with room to grow: ScaleUp
C7_Witness ==
    /\ Evaluated /\ DefaultThresholds /\ MeansAre(80, 50, 500)
    /\ current_instances < config.max_instances
    /\ current_instances > config.min_instances
    /\ ret.action = SCALE_UP

\* C8 as stated: thresholds 70 and 30, at least 5 samples, the cooldown
\* over, means cpu = 20, memory = 20, response_time = 100: should_scale
\* returns ScaleDown with confidence 0.82, whatever current_instances is.
C8_AsStated ==
    (Evaluated /\ DefaultThresholds /\ MeansAre(20, 20, 100))
        => ret = Decision(SCALE_DOWN, Frac(82, 100))

\* C8: the same, when current_instances > min_instances.
C8_ScaleDownExample ==
    (/\ Evaluated /\ DefaultThresholds /\ MeansAre(20, 20, 100)
     /\ current_instances > config.min_instances)
        => ret = Decision(SCALE_DOWN, Frac(82, 100))

\* five samples of 20/20/100 evaluated with room to shrink: ScaleDown
C8_Witness ==
    /\ Evaluated /\ DefaultThresholds /\ MeansAre(20, 20, 100)
    /\ current_instances > config.min_instances
    /\ current_instances < config.max_instances
    /\ ret.action = SCALE_DOWN

\* C9: whenever should_scale evaluates means for which the scale-up
\* condition and the scale-down condition both hold, it returns ScaleUp.
C9_ScaleUpWinsTie ==
    (/\ Evaluated
     /\ should_scale_up(calculate_average_metrics)
     /\ should_scale_down(calculate_average_metrics))
        => ret.action = SCALE_UP

\* thresholds the wrong way round and means between them: both conditions
\* hold
C9_Witness ==
    /\ Evaluated
    /\ FLess(config.scale_up_threshold, config.scale_down_threshold)
    /\ should_scale_up(calculate_average_metrics)
    /\ should_scale_down(calculate_average_metrics)
    /\ ret.action = SCALE_UP

\* every sample has cpu_usage and memory_usage in [0,100], response_time >= 0
SamplesInRange ==
    \A i \in 1..Len(metrics_history) :
        /\ metrics_history[i].cpu_usage \in 0..100
        /\ metrics_history[i].memory_usage \in 0..100
        /\ metrics_history[i].response_time >= 0

\* C10: under the default config, with samples in range, the confidence
\* should_scale returns is within [0,1].
C10_ConfidenceInUnitInterval ==
    (call.op = "should_scale" /\ config = DefaultConfig /\ SamplesInRange)
        => /\ 0 <= ret.confidence.num
           /\ ret.confidence.num <= ret.confidence.den

\* a scale-up decided on a mean response_time above 2000 ms
C10_Witness ==
    /\ Evaluated
    /\ config = DefaultConfig
    /\ SamplesInRange
    /\ SumOf(metrics_history, "response_time") > 2000 * Len(metrics_history)
    /\ ret = Decision(SCALE_UP, One)

\* the step taken is a call of execute_scaling whose guarded block raised
FaultStep == call'.op = "execute_scaling" /\ "fault" \in DOMAIN call'

\* C11: when a fault is raised anywhere in the guarded block of
\* execute_scaling, the call returns failure and current_instances and
\* last_scaling_time are what they were before the call.
C11_FaultLeavesStateUnchanged ==
    [][FaultStep =>
        /\ ret' = FALSE
        /\ UNCHANGED <<current_instances, last_scaling_time>>
    ]_vars

\* C12: in the monitoring loop, a successful execute_scaling comes at least
\* cooldown_period seconds after the successful execute_scaling before it.
C12_SuccessesApartByCooldown ==
    [][(ExecuteStep /\ ret' = TRUE /\ last_success >= 0) =>
        now' - last_success >= config.cooldown_period
    ]_vars

\* the loop's second successful scale-up: 2 -> 3 -> 4 instances
C12_Witness ==
    /\ call.op = "execute_scaling"
    /\ call.action = SCALE_UP
    /\ ret = TRUE
    /\ current_instances = 4
    /\ now >= StartTime + config.cooldown_period

ReadStep == call'.op \in {"get_status", "should_scale"}

\* C13: get_status and should_scale leave current_instances,
\* metrics_history and last_scaling_time as they were, and get_status
\* returns exactly current_instances, min_instances, max_instances,
\* len(metrics_history) and last_scaling_time.
C13_ReadsChangeNothing ==
    [][/\ ReadStep =>
            UNCHANGED <<current_instances, metrics_history, last_scaling_time>>
       /\ call'.op = "get_status" =>
            /\ ret'.current_instances = current_instances
            /\ ret'.min_instances = config.min_instances
            /\ ret'.max_instances = config.max_instances
            /\ ret'.metrics_count = Len(metrics_history)
            /\ ret'.last_scaling_time = last_scaling_time
    ]_vars

\* the status read after a scaling: 3 instances, a full history
C13_Witness ==
    /\ call.op = "get_status"
    /\ ret.current_instances = 3
    /\ ret.metrics_count = 5
    /\ ret.last_scaling_time >= StartTime

\* C14: after any sequence of list operations, those that raise IndexError
\* or return False included, size equals len(to_list()) and is_empty() is
\* true exactly when size is 0.
C14_SizeMatchesList ==
    /\ get_size = Len(to_list)
    /\ is_empty <=> get_size = 0

\* a list of three nodes after a delete_by_position that raised
C14_Witness ==
    /\ call.op = "delete_by_position"
    /\ ret.raised
    /\ size = 3

\* the list with position p (0-based) taken out
Without(nodes, p) ==
    [i \in 1..(Len(nodes) - 1) |-> IF i <= p THEN nodes[i] ELSE nodes[i + 1]]

\* the list with data put in at position p (0-based)
With(nodes, data, p) ==
    [i \in 1..(Len(nodes) + 1) |->
        IF i <= p THEN nodes[i] ELSE IF i = p + 1 THEN data ELSE nodes[i - 1]]

\* C15: insert_at_position raises IndexError exactly when position < 0 or
\* position > size; delete_by_position and get_element_at_position exactly
\* when position < 0 or position >= size.  When IndexError is raised the
\* list and size are unchanged; otherwise the element is inserted at,
\* removed from, or returned from exactly that 0-based position.
C15_PositionsChecked ==
    [][/\ call'.op = "insert_at_position" =>
            IF call'.position < 0 \/ call'.position > size
            THEN ret'.raised /\ UNCHANGED list_vars
            ELSE /\ ~ret'.raised
                 /\ head' = With(head, call'.data, call'.position)
                 /\ size' = size + 1
       /\ call'.op = "delete_by_position" =>
            IF call'.position < 0 \/ call'.position >= size
            THEN ret'.raised /\ UNCHANGED list_vars
            ELSE /\ ~ret'.raised
                 /\ ret'.value = head[call'.position + 1]
                 /\ head' = Without(head, call'.position)
                 /\ size' = size - 1
       /\ call'.op = "get_element_at_position" =>
            /\ UNCHANGED list_vars
            /\ IF call'.position < 0 \/ call'.position >= size
               THEN ret'.raised
               ELSE ~ret'.raised /\ ret'.value = head[call'.position + 1]
    ]_vars

\* an insertion at position = the old size, the last position accepted
C15_Witness ==
    /\ call.op = "insert_at_position"
    /\ ~ret.raised
    /\ call.position = size - 1
    /\ size = 3
    /\ head[size] = call.data

\* the values of a list, each at its first occurrence only
FirstOccurrences(nodes) ==
    LET kept == {i \in DOMAIN nodes : \A j \in 1..(i - 1) : nodes[j] # nodes[i]}
        nth[k \in 1..Cardinality(kept)] ==
            CHOOSE i \in kept : Cardinality({j \in kept : j < i}) = k - 1
    IN  [k \in 1..Cardinality(kept) |-> nodes[nth[k]]]

\* C16: after remove_duplicates on any list, sorted or not, no value
\* occurs more than once, the first occurrences are kept in their order,
\* and size is the number of distinct values.
C16_NoValueTwice ==
    [][call'.op = "remove_duplicates" =>
        /\ head' = FirstOccurrences(head)
        /\ size' = Cardinality({head[i] : i \in DOMAIN head})
    ]_vars

Count(nodes, value) == Cardinality({i \in DOMAIN nodes : nodes[i] = value})

NonDecreasing(nodes) ==
    \A i \in 1..(Len(nodes) - 1) : nodes[i] <= nodes[i + 1]

\* C17: sort terminates and leaves the elements in non-decreasing order,
\* the same multiset of values as before, and size unchanged.
C17_SortOrdersSameValues ==
    [][call'.op = "sort" =>
        /\ NonDecreasing(head')
        /\ \A value \in Values : Count(head', value) = Count(head, value)
        /\ Len(head') = Len(head)
        /\ size' = size
    ]_vars

\* a sorted list of four nodes with a repeated value
C17_Witness ==
    /\ call.op = "sort"
    /\ head = <<1, 1, 2, 3>>
    /\ size = 4

Mirror(nodes) == [i \in 1..Len(nodes) |-> nodes[Len(nodes) + 1 - i]]

\* C18: reverse leaves the elements in exactly the reverse of their
\* previous order with size unchanged, and reversing again restores the
\* original order.
C18_ReverseMirrors ==
    [][call'.op = "reverse" =>
        /\ head' = Mirror(head)
        /\ size' = size
        /\ Reversed(head') = head
    ]_vars

\* a list just reversed into 3, 2, 1
C18_Witness ==
    /\ call.op = "reverse"
    /\ head = <<3, 2, 1>>
    /\ size = 3

\* C19: whenever should_scale evaluates at time now, every sample in the
\* averaged history has timestamp >= now - metrics_window, however long
\* ago add_metrics was last called.
C19_EvaluatedSamplesInWindow ==
    Evaluated =>
        \A i \in DOMAIN metrics_history :
            metrics_history[i].timestamp >= now - config.metrics_window

\* averaged metrics around the thresholds and the response-time limits
MetricsGrid ==
    {[cpu_usage |-> FInt(cpu), memory_usage |-> FInt(mem),
      response_time |-> FInt(rt)] :
        cpu \in {29, 31, 71}, mem \in {29, 31, 71}, rt \in {199, 200, 1001}}

\* C20: when scale_up_threshold > scale_down_threshold, no averaged
\* metrics make the scale-up condition and the scale-down condition both
\* true.
C20_ConditionsExclusive ==
    FLess(config.scale_down_threshold, config.scale_up_threshold) =>
        \A metrics \in MetricsGrid \cup
                IF metrics_history = <<>> THEN {}
                ELSE {calculate_average_metrics} :
            ~(should_scale_up(metrics) /\ should_scale_down(metrics))

\* ordered thresholds, room to scale either way, and means for which the
\* scale-down condition holds
C20_Witness ==
    /\ Evaluated
    /\ FLess(config.scale_down_threshold, config.scale_up_threshold)
    /\ current_instances < config.max_instances
    /\ should_scale_down(calculate_average_metrics)
    /\ ~should_scale_up(calculate_average_metrics)
    /\ ret.action = SCALE_DOWN

\* C21: under a config with scale_up_factor = 1.5 and
\* 1 <= min_instances < max_instances, execute_scaling(ScaleUp, c) with
\* c >= 0.7, called when current_instances < max_instances, strictly
\* increases current_instances.
C21_ScaleUpIncreases ==
    [][(/\ ExecuteStep
        /\ call'.action = SCALE_UP
        /\ FLeq(MinConfidence, call'.confidence)
        /\ config.scale_up_factor = Frac(3, 2)
        /\ 1 <= config.min_instances
        /\ config.min_instances < config.max_instances
        /\ current_instances < config.max_instances) =>
            current_instances' > current_instances
    ]_vars

\* C22: execute_scaling(NoAction, c) with c >= 0.7 leaves current_instances
\* and metrics_history unchanged, returns success and sets
\* last_scaling_time to now, which starts a new cooldown period.
C22_NoActionStartsCooldown ==
    [][(/\ ExecuteStep
        /\ call'.action = NO_ACTION
        /\ FLeq(MinConfidence, call'.confidence)) =>
            /\ UNCHANGED <<current_instances, metrics_history>>
            /\ ret' = TRUE
            /\ last_scaling_time' = now
            /\ config.cooldown_period > 0 => InCooldown'
    ]_vars

\* a NoAction just executed on a scaler above min_instances with samples
\* in its history
C22_Witness ==
    /\ call.op = "execute_scaling"
    /\ call.action = NO_ACTION
    /\ ret = TRUE
    /\ last_scaling_time = now
    /\ current_instances > config.min_instances
    /\ metrics_history # <<>>

\* non-negative averaged metrics at, just below and above the scale-down
\* limits
DownGrid ==
    {[cpu_usage |-> cpu, memory_usage |-> mem, response_time |-> rt] :
        cpu \in {Zero, Frac(299, 10), FInt(30)},
        mem \in {Frac(299, 10), FInt(50)},
        rt \in {Zero, Frac(1999, 10)}}

\* a confidence above 0.7, and at least 0.72, which execute_scaling accepts
Confident(confidence) ==
    /\ FLess(MinConfidence, confidence)
    /\ FLeq(Frac(72, 100), confidence)
    /\ ~LowConfidence(confidence)

\* C23: under the default config and non-negative metrics, every ScaleDown
\* decision of should_scale carries a confidence above 0.7 (at least
\* 0.72), so execute_scaling does not skip it for low confidence.
C23_ScaleDownIsConfident ==
    config = DefaultConfig =>
        /\ (call.op = "should_scale" /\ ret.action = SCALE_DOWN) =>
                Confident(ret.confidence)
        /\ \A metrics \in DownGrid :
                should_scale_down(metrics) =>
                    Confident(calculate_scale_down_confidence(metrics))

\* a ScaleDown decision just returned under the default config
C23_Witness ==
    /\ config = DefaultConfig
    /\ call.op = "should_scale"
    /\ ret.action = SCALE_DOWN
    /\ SamplesInRange
    /\ current_instances > config.min_instances

====
